---- MODULE Spec2Model ----
(***************************************************************************)
(* Model of bittensor/fetch_data.py: fetch_and_save_data().                *)
(*                                                                         *)
(* One run loads price_data.json, computes how many days to request from   *)
(* CoinGecko, issues one request, filters the returned price points        *)
(* against the loaded series, and rewrites the file when at least one      *)
(* point was accepted.                                                     *)
(*                                                                         *)
(* An observation [timestamp, price] is the pair <<timestamp, price>>.     *)
(* Prices are carried through unchanged by the code; they are written here *)
(* in tenths (10 stands for 1.0, 99 for 9.9).                              *)
(*                                                                         *)
(* Python integers are unbounded, and the timestamps that matter reach     *)
(* past year 9999 (253402300800 seconds, 253402300800000 milliseconds) and *)
(* before year 1 (-62135596801 seconds).  A timestamp n is therefore       *)
(* written as the pair <<hi, lo>> with n = hi * 10^9 + lo and              *)
(* 0 <= lo < 10^9 (hi is negative for n < 0), and the arithmetic of the    *)
(* code (comparison, // 1000, difference, whole days) is carried out       *)
(* exactly on these pairs.                                                 *)
(***************************************************************************)
EXTENDS Integers, Sequences, FiniteSets, TLC

VARIABLES
    api_key,            \* TRUE when COINGECKO_API_KEY is set (line 11)
    file,               \* price_data.json on disk
    file0,              \* history: the file as it was when the run started
    pc,                 \* position of the run inside fetch_and_save_data
    existing_data,      \* local existing_data (line 21)
    last_timestamp_sec, \* local last_timestamp_sec (line 22)
    days_to_fetch,      \* local days_to_fetch (lines 43-50)
    response,           \* what requests.get / response.json() produced
    new_entries_count,  \* local new_entries_count (line 67)
    outcome,            \* which exit of the function the run took
    run,                \* number of the current run
    prev,               \* history: outcome and series of the previous run
    bf_pc,              \* backfill loop: position
    bf_source,          \* backfill loop: the upstream history (timestamps)
    bf_cursor,          \* backfill loop: the "before" cursor
    bf_pages,           \* backfill loop: pages accumulated so far
    bf_requests         \* backfill loop: number of requests issued

vars == <<api_key, file, file0, pc, existing_data, last_timestamp_sec,
          days_to_fetch, response, new_entries_count, outcome, run, prev,
          bf_pc, bf_source, bf_cursor, bf_pages, bf_requests>>

runVars == <<api_key, file, file0, pc, existing_data, last_timestamp_sec,
             days_to_fetch, response, new_entries_count, outcome, run, prev>>

bfVars == <<bf_pc, bf_source, bf_cursor, bf_pages, bf_requests>>

----------------------------------------------------------------------------
(* Bounds of the model *)

\* longest pre-filled price_data.json, in entries
MaxFile == 2

\* longest 'prices' array returned by the upstream source
MaxBatch == 2

\* number of successive runs
MaxRuns == 2

\* number of observations in the longest upstream history of a backfill
MaxHistory == 5

\* largest page the upstream source returns to a backfill request
PageSize == 2

(* Program constants *)

\* timedelta.days counts whole days of 86400 seconds (line 43)
SecondsPerDay == 86400

\* the clamp of the incremental branch (lines 45-46)
MaxDays == 365

\* the window of the branch without prior data (line 50)
FreshDays == 1000

----------------------------------------------------------------------------
(* Integers of any size: n = hi * Billion + lo *)

Billion == 1000000000

\* the integer n, 0 <= n < 10^9
Num(n) == <<0, n>>

Zero == Num(0)

\* a < b
Less(a, b) == a[1] < b[1] \/ (a[1] = b[1] /\ a[2] < b[2])

\* a - b
Minus(a, b) ==
    IF a[2] >= b[2] THEN <<a[1] - b[1], a[2] - b[2]>>
    ELSE <<a[1] - b[1] - 1, a[2] - b[2] + Billion>>

\* a // 1000
FloorDivThousand(a) ==
    <<a[1] \div 1000, (a[1] % 1000) * (Billion \div 1000) + (a[2] \div 1000)>>

\* a // d as a plain integer, for a divisor 0 < d < 10^9 and a quotient that
\* fits: hi * 10^9 + lo = d * (hi * (10^9 // d)) + (hi * (10^9 % d) + lo)
FloorDiv(a, d) ==
    a[1] * (Billion \div d) + ((a[1] * (Billion % d) + a[2]) \div d)

\* the last second datetime.fromtimestamp (line 31) accepts:
\* 253402300799, 9999-12-31 23:59:59 UTC
MaxTimestamp == <<253, 402300799>>

\* the first second datetime.fromtimestamp (line 31) accepts:
\* -62135596800, 0001-01-01 00:00:00 UTC
MinTimestamp == <<-63, 864403200>>

\* -62135596801 seconds, the last second before year 1
BeforeYear1 == <<-63, 864403199>>

\* 253402300800 seconds, the first second of year 10000
Year10000 == <<253, 402300800>>

\* 253402300800000 milliseconds
Year10000Ms == <<253402, 300800000>>

----------------------------------------------------------------------------
(* Input domains *)

Prices == {10, 99}

\* timestamps (seconds) of a pre-filled file; the first one is before and the
\* last one is past the range of datetime (a file stamped in milliseconds
\* holds such values)
FileTimestamps == {BeforeYear1, Num(100), Num(200), Year10000}

\* raw timestamps (milliseconds) the source returns; 200000 and 200500 fall
\* into the same second; the last one normalizes to a second past the range
\* of datetime
RawTimestamps == {Num(100000), Num(200000), Num(200500), Year10000Ms}

\* the worked example of the specification
ExampleExisting == << <<Num(100), 10>>, <<Num(200), 20>> >>
ExampleIncoming ==
    << <<Num(150000), 15>>, <<Num(200000), 99>>, <<Num(300000), 30>> >>

\* wall-clock values of datetime.now (seconds): the same day as the newest
\* entry, the day after, and more than a year later
Clock == {Num(300), Num(300 + SecondsPerDay), Num(300 + 400 * SecondsPerDay)}

SeqsUpTo(S, n) == UNION {[1..k -> S] : k \in 0..n}

FileContents == SeqsUpTo(FileTimestamps \X Prices, MaxFile) \cup {ExampleExisting}

Batches == SeqsUpTo(RawTimestamps \X Prices, MaxBatch) \cup {ExampleIncoming}

\* price_data.json, by what lines 25-27 do with it:
\* "missing": no file, open raises FileNotFoundError;
\* "corrupt": text that is not valid JSON and that json.load rejects with
\*   json.JSONDecodeError (empty, truncated, garbled);
\* "undecodable": bytes that do not decode as text (not UTF-8, cut inside a
\*   multibyte character), f.read() raises UnicodeDecodeError;
\* "nested": text that is not valid JSON and opens more brackets than the
\*   decoder's recursion allows ('[' a thousand times, a truncated file ending
\*   in such a run), json.load raises RecursionError;
\* "digits": valid JSON holding an integer of more digits than int() converts
\*   (over 4300), json.load raises ValueError;
\* "json": a JSON array of pairs, written in the layout of json.dump with
\*   indent=2 ("indent2") or in another layout ("compact": other whitespace,
\*   the same values)
CorruptKinds == {"corrupt", "undecodable", "nested"}

Layouts == {"indent2", "compact"}

Files ==
    {[kind |-> k, data |-> << >>, layout |-> "none"] :
        k \in {"missing", "digits"} \cup CorruptKinds}
    \cup {[kind |-> "json", data |-> d, layout |-> l] :
            d \in FileContents, l \in Layouts}

\* "ok": status 2xx and a body whose 'prices' is a list;
\* "network": requests.get raises a RequestException (timeout, connection);
\* "http": raise_for_status raises HTTPError (for instance status 500);
\* "decode": response.json() raises;
\* "nolist": the body has no 'prices' list (.get returns None or a non-list)
FailureKinds == {"network", "http", "decode", "nolist"}

Responses ==
    {[kind |-> "ok", prices |-> b] : b \in Batches}
    \cup {[kind |-> k, prices |-> << >>] : k \in FailureKinds}

NoResponse == [kind |-> "none", prices |-> << >>]

NoPrev == [outcome |-> "none", series |-> << >>]

----------------------------------------------------------------------------
(* Pure parts of fetch_and_save_data *)

\* json.dump(existing_data, f, indent=2) on a file opened with 'w'
Dump(data) == [kind |-> "json", data |-> data, layout |-> "indent2"]

\* json.load under the try of lines 25-37: a missing or invalid file leaves
\* existing_data = []; there is no value for a file whose read raises
Load(f) ==
    CASE f.kind = "json" -> f.data
      [] f.kind \in {"missing", "corrupt"} -> << >>

\* lines 28-30 and 37: the timestamp of the very last entry, 0 without entries
LastTimestamp(data) == IF Len(data) > 0 THEN data[Len(data)][1] ELSE Zero

\* line 31: datetime.fromtimestamp(last_timestamp_sec, tz=timezone.utc) raises
\* ValueError (year out of range; OverflowError or OSError further out)
\* before year 1 and past year 9999
FromTimestampRaises(t) == Less(t, MinTimestamp) \/ Less(MaxTimestamp, t)

\* lines 25-34: FileNotFoundError and json.JSONDecodeError are caught at line
\* 34; not caught are the UnicodeDecodeError, RecursionError and ValueError of
\* json.load (line 27) and, for a non-empty array, the ValueError of the
\* message of line 31
LoadRaises(f) ==
    \/ f.kind \in {"undecodable", "nested", "digits"}
    \/ /\ f.kind = "json"
       /\ Len(f.data) > 0
       /\ FromTimestampRaises(LastTimestamp(f.data))

\* lines 41-50: days between now and the last entry plus 2, clamped to 365;
\* 1000 when there is no last timestamp
DaysToFetch(last, now) ==
    IF Less(Zero, last)
    THEN LET d == FloorDiv(Minus(now, last), SecondsPerDay) + 2
         IN  IF d > MaxDays THEN MaxDays ELSE d
    ELSE FreshDays

\* line 74: timestamp_ms // 1000
Normalize(timestamp_ms) == FloorDivThousand(timestamp_ms)

\* variant: the lookup set is left empty
ExistingTimestampsEmpty(data) == {}

\* line 70: {entry[0] for entry in existing_data}, built once before the loop
ExistingTimestamps(data) == {data[i][1] : i \in 1..Len(data)}

\* variant: the union keyed by timestamp, without the comparison to the last
\* timestamp
IsNewUnion(timestamp_sec, last, existing_timestamps) ==
    timestamp_sec \notin existing_timestamps

\* variant: the filter is omitted
IsNewAlways(timestamp_sec, last, existing_timestamps) == TRUE

\* line 78
IsNew(timestamp_sec, last, existing_timestamps) ==
    Less(last, timestamp_sec) /\ timestamp_sec \notin existing_timestamps

\* lines 72-80: the loop over new_data_raw, appending the accepted entries
RECURSIVE MergeLoop(_, _, _, _)
MergeLoop(data, raw, last, existing_timestamps) ==
    IF raw = << >> THEN data
    ELSE LET entry == Head(raw)
             timestamp_sec == Normalize(entry[1])
             price == entry[2]
         IN  IF IsNew(timestamp_sec, last, existing_timestamps)
             THEN MergeLoop(Append(data, <<timestamp_sec, price>>), Tail(raw),
                            last, existing_timestamps)
             ELSE MergeLoop(data, Tail(raw), last, existing_timestamps)

\* list.sort(key=lambda x: x[0]) is stable: an entry goes after every entry
\* whose key is not greater
RECURSIVE InsertByTimestamp(_, _)
InsertByTimestamp(sorted, e) ==
    IF sorted = << >> THEN <<e>>
    ELSE IF ~Less(e[1], Head(sorted)[1])
         THEN <<Head(sorted)>> \o InsertByTimestamp(Tail(sorted), e)
         ELSE <<e>> \o sorted

RECURSIVE SortLoop(_, _)
SortLoop(sorted, rest) ==
    IF rest = << >> THEN sorted
    ELSE SortLoop(InsertByTimestamp(sorted, Head(rest)), Tail(rest))

\* line 84
SortByTimestamp(data) == SortLoop(<< >>, data)

\* variant: the file is rewritten in every successful run
ShouldSaveAlways(count) == count >= 0

\* line 82: the file is rewritten only when an entry was accepted
ShouldSave(count) == count > 0

----------------------------------------------------------------------------
(* The run *)

RunInit ==
    /\ api_key \in BOOLEAN
    /\ file \in Files
    /\ file0 = file
    /\ pc = "start"
    /\ existing_data = << >>
    /\ last_timestamp_sec = Zero
    /\ days_to_fetch = 0
    /\ response = NoResponse
    /\ new_entries_count = 0
    /\ outcome = "none"
    /\ run = 1
    /\ prev = NoPrev

BackfillIdle ==
    /\ bf_pc = "idle"
    /\ bf_source = {}
    /\ bf_cursor = 0
    /\ bf_pages = << >>
    /\ bf_requests = 0

Init == RunInit /\ BackfillIdle

\* lines 11-14: without the key the function returns before any I/O
MissingKey ==
    /\ pc = "start"
    /\ ~api_key
    /\ pc' = "done"
    /\ outcome' = "noconfig"
    /\ UNCHANGED <<api_key, file, file0, existing_data, last_timestamp_sec,
                   days_to_fetch, response, new_entries_count, run, prev>>
    /\ UNCHANGED bfVars

\* lines 15-31: the key is set and json.load (line 27) or the message of line
\* 31 raises an exception that line 34 does not catch; the function ends
\* there, before any request. At line 31 the locals of lines 27 and 30 are
\* already assigned
LoadCrashes ==
    /\ pc = "start"
    /\ api_key
    /\ LoadRaises(file)
    /\ IF file.kind = "json"
       THEN /\ existing_data' = file.data
            /\ last_timestamp_sec' = LastTimestamp(file.data)
       ELSE UNCHANGED <<existing_data, last_timestamp_sec>>
    /\ pc' = "done"
    /\ outcome' = "crashed"
    /\ UNCHANGED <<api_key, file, file0, days_to_fetch, response,
                   new_entries_count, run, prev>>
    /\ UNCHANGED bfVars

\* lines 15-37: the key is set; load the file and find the last timestamp
LoadExisting ==
    /\ pc = "start"
    /\ api_key
    /\ ~LoadRaises(file)
    /\ existing_data' = Load(file)
    /\ last_timestamp_sec' = LastTimestamp(Load(file))
    /\ pc' = "days"
    /\ UNCHANGED <<api_key, file, file0, days_to_fetch, response,
                   new_entries_count, outcome, run, prev>>
    /\ UNCHANGED bfVars

\* lines 40-54: the window to request
ComputeDays ==
    /\ pc = "days"
    /\ \E now \in Clock : days_to_fetch' = DaysToFetch(last_timestamp_sec, now)
    /\ pc' = "request"
    /\ UNCHANGED <<api_key, file, file0, existing_data, last_timestamp_sec,
                   response, new_entries_count, outcome, run, prev>>
    /\ UNCHANGED bfVars

\* what the source answers: anything in the first run; a later run receives
\* the answer of the run before it again
Upstream == IF run = 1 THEN Responses ELSE {response}

\* lines 56-60 with a usable answer
RequestOk ==
    /\ pc = "request"
    /\ \E r \in Upstream : r.kind = "ok" /\ response' = r
    /\ pc' = "merge"
    /\ UNCHANGED <<api_key, file, file0, existing_data, last_timestamp_sec,
                   days_to_fetch, new_entries_count, outcome, run, prev>>
    /\ UNCHANGED bfVars

\* variant: the file is opened for writing before the request, so a failed
\* run leaves it empty
RequestFailsAfterOpen ==
    /\ pc = "request"
    /\ \E r \in Upstream : r.kind \in FailureKinds /\ response' = r
    /\ outcome' = response'.kind
    /\ file' = [kind |-> "corrupt", data |-> << >>, layout |-> "none"]
    /\ pc' = "done"
    /\ UNCHANGED <<api_key, file0, existing_data, last_timestamp_sec,
                   days_to_fetch, new_entries_count, run, prev>>
    /\ UNCHANGED bfVars

\* lines 56-64 and 92-98: the request fails, or 'prices' is not a list; the
\* handlers print and the function returns
RequestFails ==
    /\ pc = "request"
    /\ \E r \in Upstream : r.kind \in FailureKinds /\ response' = r
    /\ outcome' = response'.kind
    /\ pc' = "done"
    /\ UNCHANGED <<api_key, file, file0, existing_data, last_timestamp_sec,
                   days_to_fetch, new_entries_count, run, prev>>
    /\ UNCHANGED bfVars

\* lines 66-90: filter, append, and when something was added sort and save
MergeAndSave ==
    /\ pc = "merge"
    /\ LET merged == MergeLoop(existing_data, response.prices,
                               last_timestamp_sec,
                               ExistingTimestamps(existing_data))
           count == Len(merged) - Len(existing_data)
       IN  /\ new_entries_count' = count
           /\ IF ShouldSave(count)
              THEN /\ existing_data' = SortByTimestamp(merged)
                   /\ file' = Dump(existing_data')
                   /\ outcome' = "saved"
              ELSE /\ existing_data' = merged
                   /\ file' = file
                   /\ outcome' = "uptodate"
    /\ pc' = "done"
    /\ UNCHANGED <<api_key, file0, last_timestamp_sec, days_to_fetch,
                   response, run, prev>>
    /\ UNCHANGED bfVars

\* line 101: the script is started again; locals start from their line 21-22
\* values
NextRun ==
    /\ pc = "done"
    /\ run < MaxRuns
    /\ api_key
    /\ run' = run + 1
    /\ prev' = [outcome |-> outcome, series |-> existing_data]
    /\ file0' = file
    /\ pc' = "start"
    /\ existing_data' = << >>
    /\ last_timestamp_sec' = Zero
    /\ days_to_fetch' = 0
    /\ new_entries_count' = 0
    /\ outcome' = "none"
    /\ UNCHANGED <<api_key, file, response>>
    /\ UNCHANGED bfVars

Next ==
    \/ MissingKey
    \/ LoadCrashes
    \/ LoadExisting
    \/ ComputeDays
    \/ RequestOk
    \/ RequestFails
    \/ MergeAndSave
    \/ NextRun

Spec == Init /\ [][Next]_vars

----------------------------------------------------------------------------
(* Backfill pagination.  fetch_data.py issues a single request (lines     *)
(* 48-60); the paginating loop belongs to the revisions of the script that *)
(* page backward through their source, and is written here from its       *)
(* description: request the most recent page not yet seen, step the cursor *)
(* to just before the oldest timestamp of that page, stop at an empty page *)
(* or at a failed fetch, and drop what was accumulated when a fetch fails. *)
(* A page is a sequence of timestamps, newest first; the price of an       *)
(* observation travels with its timestamp.                                 *)

SourceTimestamps == {100 * k : k \in 1..MaxHistory}

\* a cursor beyond every observation: "now"
Horizon == 100 * (MaxHistory + 1)

RECURSIVE NewestFirst(_)
NewestFirst(S) ==
    IF S = {} THEN << >>
    ELSE LET m == CHOOSE x \in S : \A y \in S : y <= x
         IN  <<m>> \o NewestFirst(S \ {m})

\* the n most recent observations of the source at or before the cursor
Page(source, cursor, n) ==
    LET seen == NewestFirst({t \in source : t <= cursor})
    IN  SubSeq(seen, 1, IF Len(seen) < n THEN Len(seen) ELSE n)

Oldest(page) == page[Len(page)]

\* variant: the cursor is set at the oldest timestamp itself
StepCursorAtOldest(page) == Oldest(page)

\* just before the oldest timestamp of the page received
StepCursor(page) == Oldest(page) - 1

RECURSIVE Flatten(_)
Flatten(pages) ==
    IF pages = << >> THEN << >> ELSE Head(pages) \o Flatten(Tail(pages))

\* a run without prior data and with the key set
BackfillInit ==
    /\ api_key = TRUE
    /\ file = [kind |-> "missing", data |-> << >>, layout |-> "none"]
    /\ file0 = file
    /\ pc = "start"
    /\ existing_data = << >>
    /\ last_timestamp_sec = Zero
    /\ days_to_fetch = 0
    /\ response = NoResponse
    /\ new_entries_count = 0
    /\ outcome = "none"
    /\ run = 1
    /\ prev = NoPrev
    /\ bf_pc = "fetch"
    /\ bf_source \in SUBSET SourceTimestamps
    /\ bf_cursor = Horizon
    /\ bf_pages = << >>
    /\ bf_requests = 0

\* a request answered with a non-empty page of at most PageSize observations
BackfillPage ==
    /\ bf_pc = "fetch"
    /\ bf_requests <= MaxHistory + 1
    /\ \E n \in 1..PageSize :
          LET page == Page(bf_source, bf_cursor, n)
          IN  /\ page # << >>
              /\ bf_pages' = Append(bf_pages, page)
              /\ bf_cursor' = StepCursor(page)
    /\ bf_requests' = bf_requests + 1
    /\ UNCHANGED <<bf_pc, bf_source>>
    /\ UNCHANGED runVars

\* a request answered with the empty page: history is exhausted
BackfillExhausted ==
    /\ bf_pc = "fetch"
    /\ Page(bf_source, bf_cursor, PageSize) = << >>
    /\ bf_pc' = "done"
    /\ bf_requests' = bf_requests + 1
    /\ UNCHANGED <<bf_source, bf_cursor, bf_pages>>
    /\ UNCHANGED runVars

\* a request fails: the backfill is aborted and nothing accumulated is kept
BackfillFails ==
    /\ bf_pc = "fetch"
    /\ bf_requests <= MaxHistory + 1
    /\ bf_pc' = "failed"
    /\ bf_pages' = << >>
    /\ bf_requests' = bf_requests + 1
    /\ UNCHANGED <<bf_source, bf_cursor>>
    /\ UNCHANGED runVars

BackfillNext ==
    \/ BackfillPage
    \/ BackfillExhausted
    \/ BackfillFails

\* the loop is synchronous: while a request can be issued, one is
SpecBackfill == BackfillInit /\ [][BackfillNext]_vars /\ WF_vars(BackfillNext)

----------------------------------------------------------------------------
(* Vocabulary of the properties *)

Range(s) == {s[i] : i \in 1..Len(s)}

\* the timestamps a series holds
TimestampsOf(data) == {e[1] : e \in Range(data)}

\* the series loaded by the current run
Loaded == Load(file0)

\* the run went through the merge step
Merged == pc = "done" /\ outcome \in {"saved", "uptodate"}

Sorted(data) ==
    \A i \in 1..Len(data) - 1 : ~Less(data[i + 1][1], data[i][1])

UniqueTimestamps(data) ==
    \A i, j \in 1..Len(data) : data[i][1] = data[j][1] => i = j

IsSeries(data) == Sorted(data) /\ UniqueTimestamps(data)

\* the entries of data carrying timestamp t, in their order
At(data, t) == SelectSeq(data, LAMBDA e : e[1] = t)

\* the observation a raw entry normalizes to
Observation(entry) == <<Normalize(entry[1]), entry[2]>>

Incoming == response.prices

----------------------------------------------------------------------------
(* C1 *)

\* C1 (as stated): the merge step builds the union of the loaded series and
\* the incoming batch keyed by timestamp: every incoming observation whose
\* normalized timestamp is not in the loaded series is in the result, also
\* when it is older than the last loaded entry; the worked example yields
\* [[100,1.0],[150,1.5],[200,2.0],[300,3.0]].
C1_UnionKeyedByTimestamp ==
    Merged =>
        /\ \A i \in 1..Len(Incoming) :
              Normalize(Incoming[i][1]) \notin TimestampsOf(Loaded)
                  => Observation(Incoming[i]) \in Range(existing_data)
        /\ (Loaded = ExampleExisting /\ Incoming = ExampleIncoming)
              => existing_data =
                    << <<Num(100), 10>>, <<Num(150), 15>>,
                       <<Num(200), 20>>, <<Num(300), 30>> >>

\* C1 (amended): in every run that reaches the merge step (the load of lines
\* 25-37 raised nothing uncaught and the fetch succeeded), an incoming
\* observation is in the result when its normalized timestamp is greater than
\* the timestamp of the last loaded entry (0 when nothing was loaded) and is
\* not a loaded timestamp; an incoming observation whose timestamp is not
\* greater than that last timestamp is discarded; the worked example yields
\* [[100,1.0],[200,2.0],[300,3.0]].
C1_NewerThanLastAppended ==
    Merged =>
        /\ \A i \in 1..Len(Incoming) :
              LET t == Normalize(Incoming[i][1])
              IN  /\ (Less(LastTimestamp(Loaded), t)
                        /\ t \notin TimestampsOf(Loaded))
                        => Observation(Incoming[i]) \in Range(existing_data)
                  /\ ~Less(LastTimestamp(Loaded), t)
                        => At(existing_data, t) = At(Loaded, t)
        /\ (Loaded = ExampleExisting /\ Incoming = ExampleIncoming)
              => existing_data =
                    << <<Num(100), 10>>, <<Num(200), 20>>, <<Num(300), 30>> >>

\* the worked example has been merged and saved
C1_Witness ==
    /\ Merged
    /\ Loaded = ExampleExisting
    /\ Incoming = ExampleIncoming
    /\ outcome = "saved"
    /\ file = Dump(existing_data)

----------------------------------------------------------------------------
(* C2 *)

\* C2: for every loaded Series (sorted, unique timestamps) and every incoming
\* batch, the series produced by the merge step has no two entries sharing a
\* timestamp.
C2_ResultTimestampsUnique ==
    (Merged /\ IsSeries(Loaded)) => UniqueTimestamps(existing_data)

----------------------------------------------------------------------------
(* C3 *)

\* C3: for any loaded data and any incoming batch, the series left by the
\* merge step and the persisted file after the run are sorted ascending by
\* timestamp, also when no incoming entry is accepted.
C3_ResultSorted ==
    Merged => /\ Sorted(existing_data)
              /\ file.kind = "json" => Sorted(file.data)

----------------------------------------------------------------------------
(* C4 *)

\* C4: on a timestamp collision the loaded entry wins: in every run that
\* merges, for every loaded timestamp the result holds exactly the loaded
\* entries of that timestamp, with their prices, and no incoming entry of that
\* timestamp, and the saved file holds that result; a run that ends before the
\* merge (the load raises) leaves the file, and so every existing entry, as
\* it was.
C4_ExistingEntryWins ==
    /\ Merged =>
          /\ \A t \in TimestampsOf(Loaded) :
                At(existing_data, t) = At(Loaded, t)
          /\ outcome = "saved" => file = Dump(existing_data)
    /\ outcome = "crashed" => file = file0

\* an incoming entry collided with a loaded entry of another price, and the
\* run saved
C4_Witness ==
    /\ Merged
    /\ outcome = "saved"
    /\ \E i \in 1..Len(Incoming), j \in 1..Len(Loaded) :
          /\ Normalize(Incoming[i][1]) = Loaded[j][1]
          /\ Incoming[i][2] # Loaded[j][2]

----------------------------------------------------------------------------
(* C5 *)

\* C5: merging is idempotent: a run that receives the batch of the run before
\* it, on the series that run left, ends with exactly the series that run
\* ended with and accepts nothing; and every run that follows a merging run
\* and is offered the same batch, also one that ends before it receives the
\* batch, leaves the file as that run left it.
C5_Idempotent ==
    (pc = "done" /\ run > 1 /\ prev.outcome \in {"saved", "uptodate"})
        => /\ file = file0
           /\ Merged => /\ existing_data = prev.series
                         /\ outcome = "uptodate"

\* the second run received a batch the first run accepted entries from
C5_Witness ==
    /\ Merged
    /\ run > 1
    /\ prev.outcome = "saved"
    /\ Len(Incoming) > 1
    /\ existing_data = prev.series

----------------------------------------------------------------------------
(* C6 *)

\* C6: a failure of the fetch step (network error, HTTP error status, a body
\* that does not decode, 'prices' not a list) ends the run with the file as
\* it was when the run started; before the merge step the file is never
\* written.
C6_FailureLeavesFile ==
    /\ outcome \in FailureKinds => (pc = "done" /\ file = file0)
    /\ pc \in {"start", "days", "request", "merge"} => file = file0

\* a run that loaded a previously persisted file of two entries, written in a
\* layout other than json.dump's, ended on an HTTP error
C6_Witness ==
    /\ pc = "done"
    /\ outcome = "http"
    /\ file0.kind = "json"
    /\ file0.layout = "compact"
    /\ Len(file0.data) = 2
    /\ existing_data = file0.data
    /\ file = file0

----------------------------------------------------------------------------
(* C7 *)

\* C7: in every run, with or without prior data, the requested window
\* days_to_fetch is at most 365 days.
C7_WindowClamped ==
    pc \in {"request", "merge"} => days_to_fetch <= MaxDays

----------------------------------------------------------------------------
(* C8 *)

\* C8: a run whose fetch returns an empty batch leaves the in-memory series
\* equal to the loaded one and the file as it was.
C8_EmptyBatchUnchanged ==
    (Merged /\ Incoming = << >>)
        => /\ existing_data = Loaded
           /\ file = file0
           /\ new_entries_count = 0

\* an empty batch met a file of two entries
C8_Witness ==
    /\ Merged
    /\ Incoming = << >>
    /\ Len(Loaded) = 2
    /\ existing_data = Loaded
    /\ file = file0

----------------------------------------------------------------------------
(* C9 *)

\* C9: with the prior file missing or corrupt (invalid JSON text of any depth,
\* or bytes that do not decode) the run goes on with an empty series and
\* reaches the fetch,
\* and when it saves, the saved series holds only observations the source
\* returned and is sorted and free of duplicate timestamps.
C9_FreshRunSeries ==
    (pc = "done" /\ api_key
        /\ file0.kind \in {"missing"} \cup CorruptKinds)
        => /\ outcome \in {"saved", "uptodate"} \cup FailureKinds
           /\ outcome = "saved" =>
                 /\ file = Dump(existing_data)
                 /\ \A e \in Range(existing_data) :
                       \E i \in 1..Len(Incoming) : e = Observation(Incoming[i])
                 /\ Sorted(existing_data)
                 /\ UniqueTimestamps(existing_data)

----------------------------------------------------------------------------
(* C10 *)

\* C10: the backfill loop halts (at the empty page or at a failure); while it
\* runs the cursor stands just before the oldest timestamp of the page last
\* received; when it halts at the empty page no accumulated page is empty and
\* the accumulated pages hold every observation of the source exactly once,
\* newest first.
C10_BackfillTerminates ==
    /\ <>(bf_pc \in {"done", "failed"})
    /\ [](bf_pc = "fetch" /\ bf_pages # << >>
            => bf_cursor = Oldest(bf_pages[Len(bf_pages)]) - 1)
    /\ [](bf_pc = "done"
            => /\ \A i \in 1..Len(bf_pages) : bf_pages[i] # << >>
               /\ Flatten(bf_pages) = NewestFirst(bf_source)
               /\ bf_requests = Len(bf_pages) + 1)

\* a history of several pages was paged through to the empty page
C10_Witness ==
    /\ bf_pc = "done"
    /\ Len(bf_pages) >= 3
    /\ Cardinality(bf_source) = MaxHistory

====
